---- MODULE Spec2Model ----
(***************************************************************************)
(* Model of the PR-maintenance scripts of opensearch-build:                *)
(*   src/src/pr_management/StalledPRs.py      (variant "stalled")          *)
(*   src/src/pr_management/BackportPRs.py     (variant "backport")         *)
(*   src/scripts/pr-management/StalledPRs.py  (variant "script")           *)
(*                                                                         *)
(* Two specifications:                                                     *)
(*   SpecResolve  the changelog conflict resolvers as functions on files   *)
(*   Spec         the orchestrators and git drivers, one PR at a time      *)
(***************************************************************************)
EXTENDS Integers, Sequences, FiniteSets, TLC

\* ------------------------------------------------------------------ bounds
MaxLen == 5         \* longest arbitrary file (in lines) given to a resolver
MaxBlocks == 2      \* most conflict blocks in a well-formed file given to a resolver
MaxPRs == 2         \* longest list returned by the label search
MaxCommits == 3     \* most commits in one PR
MaxRuns == 2        \* process runs against the same working tree

\* ------------------------------------------------------------------ text
\* A line is a sequence of atoms (its text without the line terminator); a
\* line read from a file is a single atom, a line made by writelines() joining
\* an unterminated line with the next one is the concatenation of both.
\* A file is its lines, whether the last line is terminated, and the
\* terminator its lines end with: "lf" ("\n") or "crlf" ("\r\n"); a file
\* without any terminator counts as "lf".
StartSp == "<<<<<<< HEAD"     \* starts with '<<<<<<< ' (git's start marker)
StartBare == "<<<<<<<"        \* starts with '<<<<<<<' but not with '<<<<<<< '
SepLine == "======="
EndSp == ">>>>>>> pr"

MarkerAtoms == {StartSp, StartBare, SepLine, EndSp}
TextAtoms == {"old", "new"}
Atoms == MarkerAtoms \cup TextAtoms

EmptyLine == <<>>
EmptyFile == [lines |-> <<>>, nl |-> FALSE, eol |-> "lf"]

\* str.startswith(prefix), prefix given by the atoms that begin with it
StartsWith(line, atoms) == Len(line) > 0 /\ line[1] \in atoms

\* `sub in content`: some line of the file holds an atom containing sub
Contains(f, atoms) ==
  \E i \in 1..Len(f.lines) : \E j \in 1..Len(f.lines[i]) : f.lines[i][j] \in atoms

\* line.startswith('<<<<<<< ') in the advanced resolvers,
\* line.startswith('<<<<<<<') in the script resolver
IsStart(which, line) ==
  IF which = "script" THEN StartsWith(line, {StartSp, StartBare})
  ELSE StartsWith(line, {StartSp})

IsSep(line) == StartsWith(line, {SepLine})

IsEnd(which, line) == StartsWith(line, {EndSp})

\* open(path, 'r').read() then content.split('\n'): reading in text mode
\* turns every "\r\n" into "\n"; the pieces between the terminators (a
\* terminated last line leaves a final empty piece, the empty file is one
\* empty piece)
Split(f) ==
  LET ls == IF f.nl \/ f.lines = <<>> THEN Append(f.lines, EmptyLine) ELSE f.lines
  IN [i \in 1..Len(ls) |-> [text |-> ls[i], nl |-> i < Len(ls)]]

\* f.readlines() in text mode: every line with its terminator read as "\n",
\* the last one as it is
ReadLines(f) ==
  [i \in 1..Len(f.lines) |-> [text |-> f.lines[i], nl |-> (i < Len(f.lines)) \/ f.nl]]

\* The file open(path, 'w') holds once the pieces are written, each followed
\* by "\n" when nl: an unterminated piece runs into the next one, and text
\* mode writes "\n" as os.linesep, "\n" on the POSIX hosts the scripts run on.
RECURSIVE Concat(_, _)
Concat(ps, acc) ==
  \* acc: the text of the unterminated line begun by the pieces before ps
  IF ps = <<>> THEN
    IF acc = EmptyLine THEN EmptyFile
    ELSE [lines |-> <<acc>>, nl |-> FALSE, eol |-> "lf"]
  ELSE
    LET p == Head(ps)
        cur == acc \o p.text
    IN IF p.nl THEN
         LET rest == Concat(Tail(ps), EmptyLine)
         IN [lines |-> <<cur>> \o rest.lines,
             nl |-> IF rest.lines = <<>> THEN TRUE ELSE rest.nl,
             eol |-> "lf"]
       ELSE Concat(Tail(ps), cur)

\* '\n'.join(pieces): a terminator between the pieces, none after the last
Join(ps) == Concat([i \in 1..Len(ps) |-> [text |-> ps[i].text, nl |-> i < Len(ps)]], EmptyLine)

\* f.writelines(pieces): the pieces as they are
WriteLines(ps) == Concat(ps, EmptyLine)

\* The inner `while i < len(lines) and not lines[i].startswith(...)` loops:
\* the first index >= i holding the stop marker, or past the end.
RECURSIVE ScanTo(_, _, _, _)
ScanTo(which, ps, i, stop) ==
  IF i > Len(ps) THEN i
  ELSE IF (stop = "sep" /\ IsSep(ps[i].text)) \/ (stop = "end" /\ IsEnd(which, ps[i].text)) THEN i
  ELSE ScanTo(which, ps, i + 1, stop)

\* A block resolved in the wrong order (head changes first): the mutant.
RECURSIVE ResolveFromHeadFirst(_, _, _)
ResolveFromHeadFirst(which, ps, i) ==
  IF i > Len(ps) THEN <<>>
  ELSE IF IsStart(which, ps[i].text) THEN
    LET s == ScanTo(which, ps, i + 1, "sep")
        e == ScanTo(which, ps, s + 1, "end")
    IN SubSeq(ps, i + 1, s - 1) \o SubSeq(ps, s + 1, e - 1)
         \o ResolveFromHeadFirst(which, ps, e + 1)
  ELSE <<ps[i]>> \o ResolveFromHeadFirst(which, ps, i + 1)

\* A resolver that keeps the incoming side only: the mutant.
RECURSIVE ResolveFromDropHead(_, _, _)
ResolveFromDropHead(which, ps, i) ==
  IF i > Len(ps) THEN <<>>
  ELSE IF IsStart(which, ps[i].text) THEN
    LET s == ScanTo(which, ps, i + 1, "sep")
        e == ScanTo(which, ps, s + 1, "end")
    IN SubSeq(ps, s + 1, e - 1) \o ResolveFromDropHead(which, ps, e + 1)
  ELSE <<ps[i]>> \o ResolveFromDropHead(which, ps, i + 1)

\* A resolver that copies the start marker before resolving its block: the mutant.
RECURSIVE ResolveFromKeepStart(_, _, _)
ResolveFromKeepStart(which, ps, i) ==
  IF i > Len(ps) THEN <<>>
  ELSE IF IsStart(which, ps[i].text) THEN
    LET s == ScanTo(which, ps, i + 1, "sep")
        e == ScanTo(which, ps, s + 1, "end")
    IN <<ps[i]>> \o SubSeq(ps, s + 1, e - 1) \o SubSeq(ps, i + 1, s - 1)
         \o ResolveFromKeepStart(which, ps, e + 1)
  ELSE <<ps[i]>> \o ResolveFromKeepStart(which, ps, i + 1)

\* The outer `while i < len(lines)` loop from index i: the resolved pieces.
RECURSIVE ResolveFrom(_, _, _)
ResolveFrom(which, ps, i) ==
  IF i > Len(ps) THEN <<>>
  ELSE IF IsStart(which, ps[i].text) THEN
    LET s == ScanTo(which, ps, i + 1, "sep")
        e == ScanTo(which, ps, s + 1, "end")
        head_changes == SubSeq(ps, i + 1, s - 1)
        incoming_changes == SubSeq(ps, s + 1, e - 1)
    IN incoming_changes \o head_changes \o ResolveFrom(which, ps, e + 1)
  ELSE <<ps[i]>> \o ResolveFrom(which, ps, i + 1)

\* resolve_changelog_conflict_advanced(file_path), the file existing
resolve_changelog_conflict_advanced(f) ==
  IF ~(Contains(f, {StartSp}) /\ Contains(f, {SepLine}) /\ Contains(f, {EndSp}))
  THEN f
  ELSE Join(ResolveFrom("advanced", Split(f), 1))

\* resolve_changelog_conflict(file_path)
resolve_changelog_conflict(f) == WriteLines(ResolveFrom("script", ReadLines(f), 1))

\* The resolver of a script variant
Resolve(which, f) ==
  IF which = "script" THEN resolve_changelog_conflict(f)
  ELSE resolve_changelog_conflict_advanced(f)

\* ------------------------------------------------------------------ state
VARIABLES
  \* the resolver specification
  rwhich,     \* the resolver applied: "advanced" or "script"
  rin,        \* the file given to the resolver
  r1,         \* the file after one pass
  r2,         \* the file after a second pass
  rpc,        \* "in", "once", "twice"
  \* the orchestrator
  variant,    \* which script runs: "stalled", "backport", "script"
  token,      \* GITHUB_TOKEN is set
  hasChangelog, \* the working tree holds a CHANGELOG.md
  run,        \* number of the process run against the working tree
  pc,         \* position of the process
  nprs,       \* length of the fetched PR list
  idx,        \* 1-based position in the PR list
  handled,    \* PRs of the list the loop body has run for in this run
  success_count, \* main's success_count
  exitCode,   \* exit code of the process, -1 while it runs
  \* the driver's locals
  attempts,   \* handle_stalled_pr's attempts counter
  ncom,       \* number of commits of the backport PR
  ci,         \* 1-based index of the commit being cherry-picked
  \* the working tree and the branches
  repo,       \* in-progress operation, unmerged paths, work tree, index
  curBranch,  \* the checked-out branch: "target", "local", "pr"
  localBranch, \* local_stalled_<n> of the PR in hand exists
  leaked,     \* the local target branch holds commits of an earlier PR that
              \* origin does not have
  \* what happened while handling the current PR
  h

rvars == <<rwhich, rin, r1, r2, rpc>>
ovars == <<variant, token, hasChangelog, run, pc, nprs, idx, handled, success_count, exitCode>>
lvars == <<attempts, ncom, ci>>
gvars == <<repo, curBranch, localBranch, leaked>>
dvars == <<ovars, lvars, gvars, h>>
vars == <<rvars, dvars>>

\* ------------------------------------------------------------------ files
CL == "CHANGELOG.md"
Other == "a.txt"
Paths == {CL, Other}

Line(a) == <<a>>
OursFile == [lines |-> <<Line("old")>>, nl |-> TRUE, eol |-> "lf"]
TheirsFile == [lines |-> <<Line("new")>>, nl |-> TRUE, eol |-> "lf"]
\* what git leaves in the work tree for a both-modified path
ConflictFile ==
  [lines |-> <<Line(StartSp), Line("old"), Line(SepLine), Line("new"), Line(EndSp)>>,
   nl |-> TRUE, eol |-> "lf"]

HasMarker(f) == \E i \in 1..Len(f.lines) : StartsWith(f.lines[i], MarkerAtoms)

AllAt(f) == [p \in Paths |-> f]

\* ------------------------------------------------------------------ git
\* The version-control tool, as the scripts use it. A repository is
\*   inprog      the operation in progress: "none", "rebase", "cherry-pick", "merge", "am"
\*   conflicts   the unmerged paths (git diff --name-only --diff-filter=U)
\*   sticky      unmerged paths for which `checkout --theirs <path>` and
\*               `add <path>` exit nonzero (safe_git_operation returns False,
\*               which the driver ignores), so that they stay unmerged
\*   emptyAfter  the stopped commit has no changes left once resolved
\*   stopSet     the paths that were unmerged when the operation stopped
\*   wt, index   content of each path in the work tree and in the index
CleanRepo ==
  [inprog |-> "none", conflicts |-> {}, sticky |-> {}, emptyAfter |-> FALSE,
   stopSet |-> {}, wt |-> AllAt(OursFile), index |-> AllAt(OursFile)]

Dirty(r) == r.conflicts # {} \/ r.wt # AllAt(OursFile) \/ r.index # AllAt(OursFile)

\* no in-progress rebase/cherry-pick/merge/am and no uncommitted changes
IsClean(r) == r.inprog = "none" /\ ~Dirty(r)

\* an operation stopped at a commit
GitStop(kind, C, st, e) ==
  [inprog |-> kind, conflicts |-> C, sticky |-> st, emptyAfter |-> e,
   stopSet |-> C,
   wt |-> [p \in Paths |-> IF p \in st THEN EmptyFile
                           ELSE IF p \in C THEN ConflictFile ELSE OursFile],
   index |-> AllAt(OursFile)]

ConflictablePaths == IF hasChangelog THEN Paths ELSE Paths \ {CL}

\* the ways an operation can stop on a conflict
Stops(kind) ==
  UNION { UNION { { GitStop(kind, C, st, e) : e \in (IF st = {} THEN BOOLEAN ELSE {FALSE}) } :
                  st \in SUBSET (C \ {CL}) } :
          C \in (SUBSET ConflictablePaths) \ {{}} }

\* git reset --hard, git clean -fd: index and work tree back to HEAD; the
\* state of a merge or a single cherry-pick goes with it, that of a rebase
\* or an am (their directories under .git) stays
GitResetHardClean(r) ==
  [r EXCEPT !.conflicts = {}, !.sticky = {}, !.wt = AllAt(OursFile),
            !.index = AllAt(OursFile),
            !.inprog = IF @ \in {"cherry-pick", "merge"} THEN "none" ELSE @]

\* git rebase --abort / git cherry-pick --abort: ends that operation if it is
\* the one in progress (exit 0), else fails and changes nothing
GitAbort(kind, r) == IF r.inprog = kind THEN CleanRepo ELSE r

\* git rebase origin/<target>: refused when an operation is in progress or the
\* tree is dirty; else replays every commit (exit 0) or stops at a conflict
GitRebase(r) ==
  IF r.inprog # "none" \/ Dirty(r) THEN {[rc |-> "refused", repo |-> r]}
  ELSE {[rc |-> "ok", repo |-> r]}
         \cup {[rc |-> "conflict", repo |-> s] : s \in Stops("rebase")}

\* the staged content of the paths the stop was about: what the commit made by
\* --continue records for them
CommitPairs(r) == {<<p, r.index[p]>> : p \in r.stopSet}

\* git rebase --continue
\*   norebase      no rebase in progress
\*   unmerged      unmerged paths are left
\*   empty_stdout  nothing to commit, said on stdout
\*   empty_stderr  nothing to commit, said on stderr only
\*   ok            the commit is made and the rest replays to the end
\*   conflict      the commit is made and a later commit stops on new conflicts
GitRebaseContinue(r) ==
  IF r.inprog # "rebase" THEN {[rc |-> "norebase", repo |-> r]}
  ELSE IF r.conflicts # {} THEN {[rc |-> "unmerged", repo |-> r]}
  ELSE IF r.emptyAfter THEN {[rc |-> "empty_stdout", repo |-> r],
                             [rc |-> "empty_stderr", repo |-> r]}
  ELSE {[rc |-> "ok", repo |-> CleanRepo]}
         \cup {[rc |-> "conflict", repo |-> s] : s \in Stops("rebase")}

\* git rebase --skip: drops the stopped commit; the rest replays to the end or
\* stops on new conflicts
GitRebaseSkip(r) ==
  IF r.inprog # "rebase" THEN {r}
  ELSE {CleanRepo} \cup Stops("rebase")

\* git cherry-pick <sha>: refused when an operation is in progress or the tree
\* is dirty; else commits (exit 0), stops at a conflict, or stops because the
\* commit is empty on this branch
GitCherryPick(r) ==
  IF r.inprog # "none" \/ Dirty(r) THEN {[rc |-> "refused", repo |-> r]}
  ELSE {[rc |-> "ok", repo |-> r],
        [rc |-> "empty", repo |-> GitStop("cherry-pick", {}, {}, TRUE)]}
         \cup {[rc |-> "conflict", repo |-> s] : s \in Stops("cherry-pick")}

\* git cherry-pick --continue: commits the index unless paths are unmerged or
\* the commit would be empty ("The previous cherry-pick is now empty")
GitCherryPickContinue(r) ==
  IF r.inprog # "cherry-pick" THEN [rc |-> "nopick", repo |-> r]
  ELSE IF r.conflicts # {} THEN [rc |-> "unmerged", repo |-> r]
  ELSE IF r.emptyAfter THEN [rc |-> "empty", repo |-> r]
  ELSE [rc |-> "ok", repo |-> CleanRepo]

\* git add <path>: stages the work-tree file, which marks the path resolved,
\* or fails and changes nothing
GitAdd(r, p) ==
  IF p \in r.sticky THEN r
  ELSE [r EXCEPT !.index[p] = r.wt[p], !.conflicts = @ \ {p}]

\* git add . : stages every change of the work tree, deletions included, which
\* marks every path resolved
GitAddAll(r) == [r EXCEPT !.index = r.wt, !.conflicts = {}, !.sticky = {}]

\* git checkout --theirs <path>: the work-tree file becomes the replayed
\* commit's version, or fails and changes nothing
GitCheckoutTheirs(r, p) ==
  IF p \in r.sticky THEN r ELSE [r EXCEPT !.wt[p] = TheirsFile]

\* check_for_conflicts(repo_dir): the paths `git diff --name-only
\* --diff-filter=U` prints, or the empty list when that command exits nonzero
check_for_conflicts(r) ==
  {[rc |-> 0, files |-> r.conflicts], [rc |-> 1, files |-> {}]}

\* ------------------------------------------------------------------ drivers
max_attempts == 10

\* What the model remembers of the handling of the current PR
\*   ret        what the driver returned: "none", "ok", "fail", "raised", "error"
\*   opFailed   the rebase or a cherry-pick exited nonzero
\*   firstConf  the unmerged paths when the rebase first failed
\*   passes     resolution passes made
\*   pass1      the unmerged paths right after the first pass
\*   unres      a resolution pass left a path unmerged
\*   conts      `--continue` commands issued, lastCont the outcome of the last
\*   skipped    `rebase --skip` was issued, skipDone: and it completed the rebase
\*   aborted    `--abort` was issued
\*   done       the driver reached its push section
\*   pushes     the push commands issued, pushed: any was issued
\*   pubLeaked  the successful push published commits of an earlier PR
\*   picked     this PR's commits committed to the local target branch
\*   emptied    the commits left without changes by the conflict resolution
\*   committed  path and content recorded by the commits made by --continue
\*   seen       what check_for_conflicts returned before the last `--continue`
\*   checkFailed  and whether its `git diff` had exited nonzero
\*   fork       the PR's head repository is a fork (fork_owner != owner)
\*   branched   `git checkout -b local_stalled_<n>` succeeded
\*   pushLog    the push commands run, in order: command, remote, refspec and
\*              what safe_git_operation returned for it
HInit ==
  [ret |-> "none", opFailed |-> FALSE, firstConf |-> {}, passes |-> 0,
   pass1 |-> {}, unres |-> FALSE, conts |-> 0, lastCont |-> "none",
   skipped |-> FALSE, skipDone |-> FALSE, aborted |-> FALSE, done |-> FALSE,
   pushes |-> <<>>,
   pushed |-> FALSE, pubLeaked |-> FALSE, picked |-> <<>>,
   emptied |-> {}, committed |-> {}, seen |-> {}, checkFailed |-> FALSE,
   fork |-> FALSE, branched |-> FALSE, pushLog |-> <<>>]

\* the orchestrator counting every PR whose driver ended, whatever it
\* returned: the mutant
ReturnCountsAll(res, hh) ==
  /\ handled' = handled + 1
  /\ success_count' = IF variant # "script" THEN success_count + 1
                      ELSE success_count
  /\ idx' = idx + 1
  /\ pc' = "next"
  /\ h' = [hh EXCEPT !.ret = res]
  /\ UNCHANGED <<variant, token, hasChangelog, run, nprs, exitCode>>

\* the driver returns res to the orchestrator, which records it and goes on
Return(res, hh) ==
  /\ handled' = handled + 1
  /\ success_count' = IF res = "ok" /\ variant # "script" THEN success_count + 1
                      ELSE success_count
  /\ idx' = idx + 1
  /\ pc' = "next"
  /\ h' = [hh EXCEPT !.ret = res]
  /\ UNCHANGED <<variant, token, hasChangelog, run, nprs, exitCode>>

\* an exception leaves the driver: main_stalled and main_backport of
\* src/pr_management catch it per PR, main_stalled of scripts/ does not
Raise(hh) ==
  IF variant = "script"
  THEN /\ handled' = handled + 1
       /\ pc' = "crashed"
       /\ exitCode' = 1
       /\ h' = [hh EXCEPT !.ret = "raised"]
       /\ UNCHANGED <<variant, token, hasChangelog, run, nprs, idx, success_count>>
  ELSE Return("error", hh)

\* the driver moves on to position p
Goto(p, hh) ==
  /\ pc' = p
  /\ h' = hh
  /\ UNCHANGED <<variant, token, hasChangelog, run, nprs, idx, handled, success_count,
                 exitCode>>

\* the `for file_path in conflicted_files` pass of handle_stalled_pr without
\* the `git add`: the mutant
StalledResolvePassNoAdd(r) ==
  LET a == IF CL \in r.conflicts
           THEN [r EXCEPT !.wt[CL] = resolve_changelog_conflict_advanced(@)]
           ELSE r
  IN IF Other \in r.conflicts THEN GitCheckoutTheirs(a, Other) ELSE a

\* the `for file_path in conflicted_files` pass of handle_stalled_pr
StalledResolvePass(r) ==
  LET a == IF CL \in r.conflicts
           THEN GitAdd([r EXCEPT !.wt[CL] = resolve_changelog_conflict_advanced(@)], CL)
           ELSE r
  IN IF Other \in r.conflicts THEN GitAdd(GitCheckoutTheirs(a, Other), Other) ELSE a

\* handle_backport_pr's resolution: CHANGELOG.md through the resolver when
\* `git status` names it, then `git add .`
BackportResolvePass(r) ==
  LET a == IF hasChangelog /\ CL \in r.conflicts
           THEN GitAdd([r EXCEPT !.wt[CL] = resolve_changelog_conflict_advanced(@)], CL)
           ELSE r
  IN GitAddAll(a)

\* rebase_pr's resolution: the resolver on CHANGELOG.md, `git add CHANGELOG.md`
ScriptResolvePass(r) ==
  GitAdd([r EXCEPT !.wt[CL] = resolve_changelog_conflict(@)], CL)

\* main without the GITHUB_TOKEN check: the mutant
MainStartNoTokenCheck ==
  /\ pc = "main"
  /\ \E n \in 0..MaxPRs, ok \in BOOLEAN :
       IF ~ok
       THEN /\ n = 0
            /\ nprs' = 0 /\ idx' = 0 /\ exitCode' = 1
            /\ pc' = IF variant = "script" THEN "crashed" ELSE "exited"
       ELSE /\ nprs' = n /\ idx' = 1 /\ pc' = "next"
            /\ UNCHANGED exitCode
  /\ UNCHANGED <<variant, token, hasChangelog, run, handled, success_count, h,
                 lvars, gvars, rvars>>

\* --- main_stalled / main_backport up to the loop: the GITHUB_TOKEN check of
\* src/pr_management (sys.exit(1)), then the label search, which raises or
\* returns the list; scripts/ has neither the check nor a try
MainStart ==
  /\ pc = "main"
  /\ IF variant # "script" /\ ~token
     THEN /\ nprs' = 0 /\ idx' = 0 /\ exitCode' = 1 /\ pc' = "exited"
     ELSE \E n \in 0..MaxPRs, ok \in BOOLEAN :
            IF ~ok
            THEN /\ n = 0
                 /\ nprs' = 0 /\ idx' = 0 /\ exitCode' = 1
                 /\ pc' = IF variant = "script" THEN "crashed" ELSE "exited"
            ELSE /\ nprs' = n /\ idx' = 1 /\ pc' = "next"
                 /\ UNCHANGED exitCode
  /\ UNCHANGED <<variant, token, hasChangelog, run, handled, success_count, h,
                 lvars, gvars, rvars>>

\* --- the `for pr in ...` loop is over: the summary, exit 0
Finish ==
  /\ pc = "next" /\ idx > nprs
  /\ pc' = "finished" /\ exitCode' = 0
  /\ UNCHANGED <<variant, token, hasChangelog, run, nprs, idx, handled,
                 success_count, h, lvars, gvars, rvars>>

\* --- fetch_pr_details for the next PR of the list
FetchDetails ==
  /\ pc = "next" /\ idx <= nprs
  /\ \E o \in {"raise", "closed", "open"} :
       /\ o = "closed" => variant = "stalled"
       /\ IF o = "raise" THEN Raise(HInit)
          ELSE IF o = "closed" THEN Return("skipped", HInit)
          ELSE Goto("drv", HInit)
  /\ attempts' = 0 /\ ncom' = 0 /\ ci' = 0
  /\ UNCHANGED <<gvars, rvars>>

\* --- handle_stalled_pr up to the rebase: git config, reset, clean, the fork
\* remote, the local branch, the fetch of the target branch
S_Prepare ==
  /\ pc = "drv" /\ variant = "stalled"
  /\ \E o \in {"raise", "fail_remote", "fail_checkout", "fail_fetch", "ok"},
        f \in BOOLEAN :
       IF o = "raise"
       THEN Raise(h) /\ UNCHANGED gvars
       ELSE LET hh == [h EXCEPT !.fork = f,
                                !.branched = (o \in {"fail_fetch", "ok"})]
            IN /\ o = "fail_remote" => f
               /\ repo' = GitResetHardClean(repo)
               /\ localBranch' = (o \in {"fail_fetch", "ok"})
               /\ curBranch' = IF o \in {"fail_fetch", "ok"} THEN "local" ELSE curBranch
               /\ IF o = "ok" THEN Goto("rebase", hh) ELSE Return("fail", hh)
               /\ UNCHANGED leaked
  /\ UNCHANGED <<lvars, rvars>>

\* --- rebase_pr up to the rebase: checkout of the PR branch (refused on an
\* unmerged index), fetch of the target branch, both check=True
R_Prepare ==
  /\ pc = "drv" /\ variant = "script"
  /\ \E o \in {"raise", "ok"} :
       /\ o = "ok" => repo.conflicts = {}
       /\ IF o = "raise" THEN Raise(h) /\ UNCHANGED curBranch
          ELSE Goto("rebase", h) /\ curBranch' = "pr"
  /\ UNCHANGED <<repo, localBranch, leaked, lvars, rvars>>

\* --- git rebase origin/<target_branch>
Rebase ==
  /\ pc = "rebase"
  /\ \E o \in GitRebase(repo) :
       /\ repo' = o.repo
       /\ IF o.rc = "ok" THEN Goto("push", h)
          ELSE Goto(IF variant = "stalled" THEN "loop" ELSE "rresolve",
                    [h EXCEPT !.opFailed = TRUE, !.firstConf = o.repo.conflicts])
  /\ UNCHANGED <<curBranch, localBranch, leaked, lvars, rvars>>

\* `if not conflicted_files` taken whatever the list holds: the mutant
NoConflictedFilesAlways(conflicted_files) == TRUE

\* `if not conflicted_files`
NoConflictedFiles(conflicted_files) == conflicted_files = {}

\* --- one iteration of handle_stalled_pr's loop with conflicted files
\* reported (the list is then the unmerged paths)
S_Resolve ==
  /\ pc = "loop" /\ attempts < max_attempts
  /\ \E c \in check_for_conflicts(repo) :
       /\ ~NoConflictedFiles(c.files)
       /\ c.files = repo.conflicts
  /\ attempts' = attempts + 1
  /\ repo' = StalledResolvePass(repo)
  /\ Goto("loop", [h EXCEPT !.passes = @ + 1,
                            !.pass1 = IF h.passes = 0 THEN repo'.conflicts ELSE @,
                            !.unres = @ \/ repo'.conflicts # {}])
  /\ UNCHANGED <<ncom, ci, curBranch, localBranch, leaked, rvars>>

\* --- one iteration of handle_stalled_pr's loop with no conflicted file
\* reported
S_Continue ==
  /\ pc = "loop" /\ attempts < max_attempts
  /\ attempts' = attempts + 1
  /\ \E c \in check_for_conflicts(repo), o \in GitRebaseContinue(repo) :
       LET hh == [h EXCEPT !.conts = @ + 1, !.lastCont = o.rc,
                           !.seen = c.files, !.checkFailed = (c.rc # 0),
                           !.committed = IF o.rc \in {"ok", "conflict"}
                                         THEN @ \cup CommitPairs(repo) ELSE @]
       IN /\ NoConflictedFiles(c.files)
          /\ IF o.rc = "ok" THEN
               \* break, then `if attempts >= max_attempts`
               IF attempts + 1 >= max_attempts
               THEN /\ repo' = GitAbort("rebase", o.repo)
                    /\ Return("fail", [hh EXCEPT !.aborted = TRUE])
               ELSE /\ repo' = o.repo
                    /\ Goto("push", hh)
             ELSE IF o.rc = "empty_stdout" THEN
               \E s \in GitRebaseSkip(o.repo) :
                 /\ repo' = s
                 /\ Goto("loop", [hh EXCEPT !.skipped = TRUE,
                                            !.skipDone = (s.inprog = "none")])
             ELSE /\ repo' = GitAbort("rebase", o.repo)
                  /\ Return("fail", [hh EXCEPT !.aborted = TRUE])
  /\ UNCHANGED <<ncom, ci, curBranch, localBranch, leaked, rvars>>

\* the loop left after max_attempts iterations as if the rebase had completed:
\* the mutant
S_MaxAttemptsPush ==
  /\ pc = "loop" /\ attempts >= max_attempts
  /\ repo' = repo
  /\ Goto("push", h)
  /\ UNCHANGED <<lvars, curBranch, localBranch, leaked, rvars>>

\* --- the loop ran max_attempts times
S_MaxAttempts ==
  /\ pc = "loop" /\ attempts >= max_attempts
  /\ repo' = GitAbort("rebase", repo)
  /\ Return("fail", [h EXCEPT !.aborted = TRUE])
  /\ UNCHANGED <<lvars, curBranch, localBranch, leaked, rvars>>

\* one push command as it was run
PushCmd(cmd, remote, refspec, ok) ==
  [cmd |-> cmd, remote |-> remote, refspec |-> refspec, ok |-> ok]

\* the commands of a push log
Cmds(log) == [i \in 1..Len(log) |-> log[i].cmd]

\* the push section with `push --force` tried first and `--force-with-lease`
\* as the fall-back: the mutant
StalledPushForceFirst(remote, seturl, lease, force) ==
  IF ~seturl THEN [log |-> <<>>, success |-> FALSE]
  ELSE IF force
  THEN [log |-> <<PushCmd("force", remote, "local:pr", TRUE)>>, success |-> TRUE]
  ELSE [log |-> <<PushCmd("force", remote, "local:pr", FALSE),
                  PushCmd("force-with-lease", remote, "local:pr", lease)>>,
        success |-> lease]

\* the push section of handle_stalled_pr, the same for the fork and for
\* origin: `remote set-url`, `push --force-with-lease`, and `push --force` when
\* that failed; seturl, lease and force are what safe_git_operation returns
\* for the three commands
StalledPush(remote, seturl, lease, force) ==
  IF ~seturl THEN [log |-> <<>>, success |-> FALSE]
  ELSE IF lease
  THEN [log |-> <<PushCmd("force-with-lease", remote, "local:pr", TRUE)>>,
        success |-> TRUE]
  ELSE [log |-> <<PushCmd("force-with-lease", remote, "local:pr", FALSE),
                  PushCmd("force", remote, "local:pr", force)>>,
        success |-> force]

\* --- handle_stalled_pr's push and cleanup
S_Push ==
  /\ pc = "push" /\ variant = "stalled"
  /\ \E seturl \in BOOLEAN, lease \in BOOLEAN, force \in BOOLEAN :
       LET p == StalledPush(IF h.fork THEN "fork" ELSE "origin", seturl, lease, force)
       IN Return(IF p.success THEN "ok" ELSE "fail",
                 [h EXCEPT !.done = TRUE, !.pushes = Cmds(p.log),
                           !.pushed = p.log # <<>>, !.pushLog = p.log])
  /\ curBranch' = "target"
  /\ localBranch' = FALSE
  /\ UNCHANGED <<repo, leaked, lvars, rvars>>

\* --- rebase_pr after a failed rebase
R_Resolve ==
  /\ pc = "rresolve"
  /\ IF hasChangelog
     THEN LET r == ScriptResolvePass(repo)
              hh == [h EXCEPT !.passes = 1, !.pass1 = r.conflicts,
                              !.unres = r.conflicts # {}, !.conts = 1]
          IN \E o \in GitRebaseContinue(r) :
               /\ repo' = o.repo
               /\ LET hc == [hh EXCEPT !.lastCont = o.rc,
                                       !.committed = IF o.rc \in {"ok", "conflict"}
                                                     THEN @ \cup CommitPairs(r) ELSE @]
                  IN IF o.rc = "ok" THEN Goto("push", hc) ELSE Raise(hc)
     ELSE /\ repo' = repo
          /\ Goto("push", [h EXCEPT !.unres = repo.conflicts # {}])
  /\ UNCHANGED <<curBranch, localBranch, leaked, lvars, rvars>>

\* --- rebase_pr's push, check=True
R_Push ==
  /\ pc = "push" /\ variant = "script"
  /\ \E ok \in BOOLEAN :
       LET hh == [h EXCEPT !.done = TRUE, !.pushes = <<"force-with-lease">>,
                           !.pushed = TRUE,
                           !.pushLog = <<PushCmd("force-with-lease", "default",
                                                 "default", ok)>>]
       IN IF ok THEN Return("ok", hh) ELSE Raise(hh)
  /\ UNCHANGED <<gvars, lvars, rvars>>

\* --- handle_backport_pr up to the cherry-picks: git config, reset, clean,
\* remotes, checkout and pull of the target branch, the PR's commit list
B_Prepare ==
  /\ pc = "drv" /\ variant = "backport"
  /\ \E o \in {"raise_config", "fail_checkout", "raise_commits", "ok"} :
       IF o = "raise_config"
       THEN Raise(h) /\ UNCHANGED <<gvars, lvars>>
       ELSE /\ repo' = GitResetHardClean(repo)
            /\ UNCHANGED <<localBranch, leaked, attempts>>
            /\ IF o = "fail_checkout"
               THEN Return("fail", h) /\ UNCHANGED <<curBranch, ncom, ci>>
               ELSE /\ curBranch' = "target"
                    /\ IF o = "raise_commits"
                       THEN Raise(h) /\ UNCHANGED <<ncom, ci>>
                       ELSE /\ \E n \in 1..MaxCommits : ncom' = n
                            /\ ci' = 1
                            /\ Goto("pick", h)
  /\ UNCHANGED rvars

\* --- git cherry-pick <commit_sha> of the next commit
B_Pick ==
  /\ pc = "pick" /\ ci <= ncom
  /\ \E o \in GitCherryPick(repo) :
       /\ repo' = o.repo
       /\ IF o.rc = "ok"
          THEN /\ ci' = ci + 1
               /\ Goto("pick", [h EXCEPT !.picked = Append(@, ci)])
          ELSE /\ UNCHANGED ci
               /\ Goto("bresolve",
                       [h EXCEPT !.opFailed = TRUE,
                                 !.firstConf = IF h.opFailed THEN @ ELSE o.repo.conflicts])
  /\ UNCHANGED <<attempts, ncom, curBranch, localBranch, leaked, rvars>>

\* a failed continue followed by the next commit instead of abort and break:
\* the mutant
B_ResolveGoOn ==
  /\ pc = "bresolve"
  /\ LET r == BackportResolvePass(repo)
         o == GitCherryPickContinue(r)
         hh == [h EXCEPT !.passes = @ + 1,
                         !.pass1 = IF h.passes = 0 THEN r.conflicts ELSE @,
                         !.unres = @ \/ r.conflicts # {},
                         !.conts = @ + 1, !.lastCont = o.rc,
                         !.emptied = IF repo.emptyAfter /\ repo.stopSet # {}
                                     THEN @ \cup {ci} ELSE @]
     IN /\ repo' = CleanRepo
        /\ ci' = ci + 1
        /\ UNCHANGED leaked
        /\ Goto("pick", IF o.rc = "ok"
                        THEN [hh EXCEPT !.picked = Append(@, ci),
                                        !.committed = @ \cup CommitPairs(r)]
                        ELSE hh)
  /\ UNCHANGED <<attempts, ncom, curBranch, localBranch, rvars>>

\* --- handle_backport_pr after a failed cherry-pick: resolution, continue,
\* abort and break when the continue fails
B_Resolve ==
  /\ pc = "bresolve"
  /\ LET r == BackportResolvePass(repo)
         o == GitCherryPickContinue(r)
         hh == [h EXCEPT !.passes = @ + 1,
                         !.pass1 = IF h.passes = 0 THEN r.conflicts ELSE @,
                         !.unres = @ \/ r.conflicts # {},
                         !.conts = @ + 1, !.lastCont = o.rc,
                         !.emptied = IF repo.emptyAfter /\ repo.stopSet # {}
                                     THEN @ \cup {ci} ELSE @]
     IN IF o.rc = "ok"
        THEN /\ repo' = o.repo
             /\ ci' = ci + 1
             /\ UNCHANGED leaked
             /\ Goto("pick", [hh EXCEPT !.picked = Append(@, ci),
                                        !.committed = @ \cup CommitPairs(r)])
        ELSE /\ repo' = GitAbort("cherry-pick", o.repo)
             /\ UNCHANGED ci
             /\ leaked' = (leaked \/ h.picked # <<>>)
             /\ Return("fail", [hh EXCEPT !.aborted = TRUE])
  /\ UNCHANGED <<attempts, ncom, curBranch, localBranch, rvars>>

\* --- handle_backport_pr's push of the target branch
B_Push ==
  /\ pc = "pick" /\ ci > ncom
  /\ \E ok \in BOOLEAN :
       LET hh == [h EXCEPT !.done = TRUE, !.pushes = <<"push">>, !.pushed = TRUE,
                           !.pushLog = <<PushCmd("push", "origin", "target", ok)>>]
       IN IF ok
          THEN /\ leaked' = FALSE
               /\ Return("ok", [hh EXCEPT !.pubLeaked = leaked])
          ELSE /\ leaked' = (leaked \/ h.picked # <<>>)
               /\ Return("fail", hh)
  /\ UNCHANGED <<repo, curBranch, localBranch, lvars, rvars>>

\* --- the script is run again on the same working tree
Restart ==
  /\ pc \in {"finished", "crashed", "exited"} /\ run < MaxRuns
  /\ run' = run + 1
  /\ pc' = "main" /\ nprs' = 0 /\ idx' = 0 /\ handled' = 0 /\ success_count' = 0
  /\ exitCode' = -1
  /\ h' = HInit
  /\ attempts' = 0 /\ ncom' = 0 /\ ci' = 0
  /\ UNCHANGED <<variant, token, hasChangelog, gvars, rvars>>

\* ------------------------------------------------------------------ Spec
ResolverParked ==
  /\ rwhich = "advanced" /\ rin = EmptyFile /\ r1 = EmptyFile /\ r2 = EmptyFile
  /\ rpc = "parked"

Init ==
  /\ ResolverParked
  /\ variant \in {"stalled", "backport", "script"}
  /\ token \in (IF variant = "script" THEN {TRUE} ELSE BOOLEAN)
  /\ hasChangelog \in BOOLEAN
  /\ run = 1 /\ pc = "main" /\ nprs = 0 /\ idx = 0 /\ handled = 0 /\ success_count = 0
  /\ exitCode = -1
  /\ attempts = 0 /\ ncom = 0 /\ ci = 0
  /\ repo = CleanRepo /\ curBranch = "target" /\ localBranch = FALSE
  /\ leaked = FALSE
  /\ h = HInit

Next ==
  \/ MainStart \/ Finish \/ FetchDetails \/ Restart
  \/ S_Prepare \/ Rebase \/ S_Resolve \/ S_Continue \/ S_MaxAttempts \/ S_Push
  \/ R_Prepare \/ R_Resolve \/ R_Push
  \/ B_Prepare \/ B_Pick \/ B_Resolve \/ B_Push

Spec == Init /\ [][Next]_vars

\* ------------------------------------------------------------------ SpecResolve
\* The resolvers as functions: a file is drawn, the resolver is run on it, and
\* run again on its own output.
DriverParked ==
  /\ variant = "none" /\ token = TRUE /\ hasChangelog = TRUE
  /\ run = 0 /\ pc = "parked" /\ nprs = 0 /\ idx = 0 /\ handled = 0 /\ success_count = 0
  /\ exitCode = -1
  /\ attempts = 0 /\ ncom = 0 /\ ci = 0
  /\ repo = CleanRepo /\ curBranch = "target" /\ localBranch = FALSE
  /\ leaked = FALSE
  /\ h = HInit

Sides == {<<>>, <<Line("old")>>, <<Line("new")>>}
Gaps == {<<>>, <<Line("old")>>}
Block(ours, theirs) == <<Line(StartSp)>> \o ours \o <<Line(SepLine)>> \o theirs \o <<Line(EndSp)>>

\* text, then n times a conflict block followed by text
RECURSIVE BlockLines(_)
BlockLines(n) ==
  IF n = 0 THEN Gaps
  ELSE LET rests == BlockLines(n - 1)
       IN {g \o Block(bl[1], bl[2]) \o rest : g \in Gaps, bl \in Sides \X Sides, rest \in rests}

\* the line terminators a file of k lines, the last one terminated or not, can
\* have
Eols(k, b) == IF k = 0 \/ (k = 1 /\ ~b) THEN {"lf"} ELSE {"lf", "crlf"}

\* the file is any file of at most MaxLen lines over the atoms, or a file as
\* git writes it for a CHANGELOG.md with up to MaxBlocks conflicts
InitResolve ==
  /\ DriverParked
  /\ rwhich \in {"advanced", "script"}
  /\ \/ \E k \in 0..MaxLen : \E ls \in [1..k -> {Line(a) : a \in Atoms}], b \in BOOLEAN :
          /\ k = 0 => ~b
          /\ \E e \in Eols(k, b) : rin = [lines |-> ls, nl |-> b, eol |-> e]
     \/ \E ls \in BlockLines(MaxBlocks), e \in {"lf", "crlf"} :
          rin = [lines |-> ls, nl |-> TRUE, eol |-> e]
  /\ r1 = rin /\ r2 = rin
  /\ rpc = "in"

\* the resolver is run on the file
ResolveOnce ==
  /\ rpc = "in"
  /\ r1' = Resolve(rwhich, rin)
  /\ r2' = r1'
  /\ rpc' = "once"
  /\ UNCHANGED <<rwhich, rin, dvars>>

\* the resolver is run on its own output
ResolveAgain ==
  /\ rpc = "once"
  /\ r2' = Resolve(rwhich, r1)
  /\ rpc' = "twice"
  /\ UNCHANGED <<rwhich, rin, r1, dvars>>

NextResolve == ResolveOnce \/ ResolveAgain

SpecResolve == InitResolve /\ [][NextResolve]_vars

\* ------------------------------------------------------------------ claims
\* the driver has ended for the current PR
Returned == h.ret # "none"

\* C1: in every driver, when the rebase or cherry-pick failed and the
\* resolution left a path unmerged, no push command is issued for the PR, and
\* once the driver has ended it has aborted the operation and reported failure.
C1_UnresolvedAbortsNoPush ==
  h.unres =>
    /\ ~h.pushed
    /\ Returned => (h.aborted /\ h.ret \in {"fail", "raised", "error"})

\* C2: in the rebase drivers, when the first rebase stops with CHANGELOG.md as
\* the only unmerged path, the first resolution pass leaves no unmerged path,
\* `rebase --continue` is what runs next, and when it exits 0 the driver is in
\* its push section.
C2_ChangelogOnlyReachesDone ==
  (variant \in {"stalled", "script"} /\ h.opFailed /\ h.firstConf = {CL}) =>
    /\ h.passes >= 1 => h.pass1 = {}
    /\ (h.passes = 1 /\ h.conts = 0) =>
         (pc = "loop" /\ repo.conflicts = {} /\ attempts < max_attempts)
    /\ (h.conts = 1 /\ h.lastCont = "ok") => (h.passes = 1 /\ (pc = "push" \/ h.done))

\* the continue after the one pass exited 0 and the driver is about to push
C2_Witness ==
  /\ variant = "stalled" /\ h.opFailed /\ h.firstConf = {CL}
  /\ h.passes = 1 /\ h.pass1 = {} /\ h.conts = 1 /\ h.lastCont = "ok"
  /\ pc = "push"

\* C3: in handle_stalled_pr, a `rebase --continue` that reports nothing to
\* commit is followed by `rebase --skip`, and when the skip completes the
\* rebase the driver reaches its push section instead of failing the PR.
C3_EmptyCommitSkippedNotFailed ==
  variant = "stalled" =>
    /\ h.lastCont = "empty_stdout" => h.skipped
    /\ (h.skipDone /\ Returned) => (h.done /\ ~h.aborted)

\* C4: in handle_backport_pr, for 3 commits of which commit 2 is left empty by
\* the conflict resolution, commits 1 and 3 are committed, commit 2 is skipped
\* and the driver reaches its push.
C4_EmptyCommitSkipped ==
  (variant = "backport" /\ ncom = 3 /\ h.emptied = {2} /\ Returned) =>
    (h.picked = <<1, 3>> /\ ~h.aborted /\ h.done)

\* C5: in every orchestrator the loop body runs for every PR of the fetched
\* list, whatever happened to the PRs before it.
C5_BatchGoesOn == pc \in {"finished", "crashed"} => handled = nprs

\* C6: when a driver issues its rebase or its first cherry-pick, no operation
\* is in progress and there are no uncommitted changes.
C6_CleanBeforeOperation ==
  (pc = "rebase" \/ (pc = "pick" /\ ci = 1 /\ ci <= ncom)) => IsClean(repo)

\* C7: what a commit made by --continue records for a conflicted file other
\* than CHANGELOG.md is one side's content (or the file's removal), with no
\* marker line.
C7_OneSideKept ==
  \A pr \in h.committed :
    pr[1] # CL => (pr[2] \in {OursFile, TheirsFile, EmptyFile} /\ ~HasMarker(pr[2]))

IsText(line) == \E a \in TextAtoms : line = Line(a)

Count(ls, x) == Cardinality({i \in 1..Len(ls) : ls[i] = x})

\* ls is text lines around one block: start marker at s, separator at p, end marker at e
OneBlockAt(ls, s, p, e) ==
  /\ s < p /\ p < e
  /\ ls[s] = Line(StartSp) /\ ls[p] = Line(SepLine) /\ ls[e] = Line(EndSp)
  /\ \A i \in (1..Len(ls)) \ {s, p, e} : IsText(ls[i])

\* C8: for an input with exactly one well-formed conflict block (ours A, theirs
\* B), each resolver replaces the block by B followed by A and leaves the lines
\* before and after it as they are.
C8_OneBlockIncomingOnTop ==
  rpc \in {"once", "twice"} =>
    LET ls == rin.lines
        At(x) == CHOOSE i \in 1..Len(ls) : ls[i] = x
    IN (Count(ls, Line(StartSp)) = 1 /\ Count(ls, Line(SepLine)) = 1
          /\ Count(ls, Line(EndSp)) = 1) =>
         LET s == At(Line(StartSp))
             p == At(Line(SepLine))
             e == At(Line(EndSp))
         IN OneBlockAt(ls, s, p, e) =>
              r1.lines = SubSeq(ls, 1, s - 1) \o SubSeq(ls, p + 1, e - 1)
                           \o SubSeq(ls, s + 1, p - 1)
                           \o SubSeq(ls, e + 1, Len(ls))

\* the example of the claim: start, old, separator, new, end yields new, old
C8_Witness ==
  /\ rpc = "once"
  /\ rin.lines = <<Line(StartSp), Line("old"), Line(SepLine), Line("new"), Line(EndSp)>>
  /\ r1.lines = <<Line("new"), Line("old")>>

\* ls from index i on is text and well-formed blocks, read in parser state st
RECURSIVE WellFormedFrom(_, _, _)
WellFormedFrom(ls, i, st) ==
  IF i > Len(ls) THEN st = "normal"
  ELSE IF IsText(ls[i]) THEN WellFormedFrom(ls, i + 1, st)
  ELSE IF ls[i] = Line(StartSp) /\ st = "normal" THEN WellFormedFrom(ls, i + 1, "ours")
  ELSE IF ls[i] = Line(SepLine) /\ st = "ours" THEN WellFormedFrom(ls, i + 1, "theirs")
  ELSE IF ls[i] = Line(EndSp) /\ st = "theirs" THEN WellFormedFrom(ls, i + 1, "normal")
  ELSE FALSE

WellFormed(ls) == WellFormedFrom(ls, 1, "normal")

First(ls, x, from) == CHOOSE i \in from..Len(ls) : ls[i] = x /\ \A j \in from..(i - 1) : ls[j] # x

\* what resolving every block of a well-formed file in document order gives
RECURSIVE Expected(_)
Expected(ls) ==
  IF Count(ls, Line(StartSp)) = 0 THEN ls
  ELSE LET s == First(ls, Line(StartSp), 1)
           p == First(ls, Line(SepLine), s)
           e == First(ls, Line(EndSp), p)
       IN SubSeq(ls, 1, s - 1) \o SubSeq(ls, p + 1, e - 1) \o SubSeq(ls, s + 1, p - 1)
            \o Expected(SubSeq(ls, e + 1, Len(ls)))

\* C9: for an input of N well-formed, non-nested blocks the output holds no
\* marker line, holds every text line as often as the input does, and is the
\* input with each block, in document order, replaced by its resolution.
C9_BlocksResolvedInOrder ==
  (rpc \in {"once", "twice"} /\ WellFormed(rin.lines)) =>
    /\ \A i \in 1..Len(r1.lines) : IsText(r1.lines[i])
    /\ \A a \in TextAtoms : Count(r1.lines, Line(a)) = Count(rin.lines, Line(a))
    /\ r1.lines = Expected(rin.lines)

\* two blocks with content on both sides, resolved
C9_Witness ==
  /\ rpc = "once"
  /\ rin.lines = Block(<<Line("old")>>, <<Line("new")>>) \o <<Line("old")>>
                   \o Block(<<Line("new")>>, <<Line("old")>>)
  /\ r1.lines = <<Line("new"), Line("old"), Line("old"), Line("old"), Line("new")>>

\* no start-marker line lies inside a block the resolver `which` reads in ls
\* from index i on, st telling which part of a block index i is in
RECURSIVE NoNestedStartFrom(_, _, _, _)
NoNestedStartFrom(which, ls, i, st) ==
  IF i > Len(ls) THEN TRUE
  ELSE IF IsStart(which, ls[i]) THEN
         st = "normal" /\ NoNestedStartFrom(which, ls, i + 1, "ours")
  ELSE IF st = "ours" /\ IsSep(ls[i]) THEN NoNestedStartFrom(which, ls, i + 1, "theirs")
  ELSE IF st = "theirs" /\ IsEnd(which, ls[i]) THEN NoNestedStartFrom(which, ls, i + 1, "normal")
  ELSE NoNestedStartFrom(which, ls, i + 1, st)

NoNestedStart(which, ls) == NoNestedStartFrom(which, ls, 1, "normal")

NoStartLine(ls) == \A i \in 1..Len(ls) : ~IsStart("script", ls[i])

\* C11: for every input with no start-marker line (separator and end-marker
\* lines may be there), each resolver leaves the file content as it is.
C11_NoStartUnchanged ==
  (rpc \in {"once", "twice"} /\ NoStartLine(rin.lines)) => r1 = rin

IsMarkerLine(line) == StartsWith(line, MarkerAtoms)

\* C12: for every input, the output has at least as many lines as the input has
\* lines that are no marker line, and every text line of the input is in the
\* output as often as in the input.
C12_ContentLinesKept ==
  rpc \in {"once", "twice"} =>
    /\ Len(r1.lines) >= Len(rin.lines) - Cardinality({i \in 1..Len(rin.lines) : IsMarkerLine(rin.lines[i])})
    /\ \A a \in TextAtoms : Count(r1.lines, Line(a)) = Count(rin.lines, Line(a))

\* C13: handle_stalled_pr's loop runs at most max_attempts (10) iterations for
\* a PR, each a resolution pass or a `rebase --continue`; once the driver has
\* ended after 10 iterations it has aborted the rebase, returned False and
\* issued no push.
C13_LoopCapped ==
  variant = "stalled" =>
    /\ attempts <= max_attempts
    /\ h.passes + h.conts = attempts
    /\ (Returned /\ attempts = max_attempts) =>
         (h.aborted /\ h.ret = "fail" /\ ~h.pushed /\ ~h.done)

\* the cap was reached with the rebase still stopped, and the PR failed
C13_Witness ==
  /\ variant = "stalled" /\ attempts = max_attempts /\ h.lastCont # "ok"
  /\ h.aborted /\ h.ret = "fail" /\ ~h.pushed

\* C14: in src/pr_management, the process exits with code 0 only when no PR of
\* the batch failed: the PR handled last did not fail, and in main_backport
\* (which skips no PR) every PR of the list was counted as a success.
C14_ExitZeroOnlyOnSuccess ==
  (variant \in {"stalled", "backport"} /\ exitCode = 0) =>
    /\ h.ret \notin {"fail", "error"}
    /\ variant = "backport" => success_count = nprs

\* C15: in src/pr_management with GITHUB_TOKEN absent, the process is only ever
\* at its start or exited with a nonzero code, and nothing an API request or
\* a git command writes has changed.
C15_NoTokenFatal ==
  (variant \in {"stalled", "backport"} /\ ~token) =>
    /\ pc \in {"main", "exited"}
    /\ pc = "exited" => exitCode = 1
    /\ nprs = 0 /\ handled = 0 /\ h = HInit
    /\ repo = CleanRepo /\ curBranch = "target" /\ ~localBranch /\ ~leaked

\* the process has exited on the missing token
C15_Witness ==
  /\ variant \in {"stalled", "backport"} /\ ~token
  /\ pc = "exited" /\ exitCode = 1

\* C16: in handle_stalled_pr, once a `rebase --continue` has exited 0 the
\* driver is in its push section or has been through it, and it has not
\* aborted the rebase.
C16_ContinueOkReachesPush ==
  (variant = "stalled" /\ h.lastCont = "ok") =>
    ((pc = "push" \/ h.done) /\ ~h.aborted)

\* C17: in handle_stalled_pr, when `rebase --continue` has stopped at a later
\* commit with new conflicts and fewer than max_attempts iterations have run,
\* the driver is back in its loop and has not aborted the rebase.
C17_NewConflictsLoopBack ==
  (variant = "stalled" /\ h.lastCont = "conflict" /\ attempts < max_attempts) =>
    (pc = "loop" /\ ~h.aborted /\ ~Returned)

\* C18: a push of handle_backport_pr that succeeds never publishes commits
\* that an earlier, failed PR left on the local target branch.
C18_NoLeakIntoLaterPR == variant = "backport" => ~h.pubLeaked

\* C19: handle_backport_pr attempts commit ci only when commits 1..ci-1 have
\* been committed, in that order; an abort ends the driver with False, at a
\* commit of the list, no commit after it attempted and nothing pushed.
C19_CommitsInOrder ==
  (variant = "backport" /\ ci >= 1) =>
    /\ h.picked = [i \in 1..(ci - 1) |-> i]
    /\ ci <= ncom + 1
    /\ h.aborted => (Returned /\ h.ret = "fail" /\ ci <= ncom /\ ~h.pushed)

\* the continue of commit 2 of 3 failed: commit 1 is committed, commit 3 was
\* never attempted
C19_Witness ==
  /\ variant = "backport" /\ ncom = 3 /\ ci = 2
  /\ h.picked = <<1>> /\ h.aborted /\ h.ret = "fail"

\* C20: in handle_stalled_pr, every `rebase --continue` follows a conflict
\* check that reported no path, and it meets unmerged paths only when that
\* check's own command had failed.
C20_ContinueOnlyWhenNoneReported ==
  variant = "stalled" =>
    /\ h.seen = {}
    /\ h.lastCont = "unmerged" => h.checkFailed

\* a continue issued after a resolution pass, the check having worked and
\* reported nothing
C20_Witness ==
  /\ variant = "stalled" /\ h.passes >= 1 /\ h.conts >= 1
  /\ h.seen = {} /\ ~h.checkFailed /\ h.lastCont = "ok"

\* C21: in handle_stalled_pr the first push command of an invocation is
\* `push --force-with-lease`; a `push --force` is run only after a
\* `push --force-with-lease` to the same remote and refspec failed in that
\* invocation; and at most one push command of the invocation succeeded.
C21_LeaseFirstForceOnlyAfter ==
  variant = "stalled" =>
    LET log == h.pushLog
    IN /\ log # <<>> => log[1].cmd = "force-with-lease"
       /\ \A i \in 1..Len(log) :
            log[i].cmd = "force" =>
              \E j \in 1..(i - 1) : /\ log[j].cmd = "force-with-lease"
                                    /\ ~log[j].ok
                                    /\ log[j].remote = log[i].remote
                                    /\ log[j].refspec = log[i].refspec
       /\ Cardinality({i \in 1..Len(log) : log[i].ok}) <= 1

\* the lease-protected push to the fork failed, the forced one succeeded and
\* the driver returned True
C21_Witness ==
  /\ variant = "stalled" /\ h.ret = "ok" /\ h.fork
  /\ Len(h.pushLog) = 2
  /\ h.pushLog[1].cmd = "force-with-lease" /\ ~h.pushLog[1].ok
  /\ h.pushLog[2].cmd = "force" /\ h.pushLog[2].ok

\* a push command of the invocation succeeded
PushSucceeded == \E i \in 1..Len(h.pushLog) : h.pushLog[i].ok

\* handle_stalled_pr and handle_backport_pr: True is returned only with a
\* push that succeeded; an invocation that aborted its operation, or ran
\* push commands of which none succeeded, returned False
C22_TrueOnlyWithPush ==
  variant \in {"stalled", "backport"} =>
    /\ h.ret = "ok" => PushSucceeded
    /\ (Returned /\ (h.aborted \/ (h.pushed /\ ~PushSucceeded))) => h.ret = "fail"

\* main_stalled and main_backport: within a run success_count goes up by one
\* in the steps in which a driver returns True, and in no other step
C22_CountStep ==
  (variant \in {"stalled", "backport"} /\ pc' # "main") =>
    success_count' = success_count + (IF h.ret = "none" /\ h'.ret = "ok" THEN 1 ELSE 0)

\* C22: handle_stalled_pr and handle_backport_pr return True only if a push
\* command for the PR succeeded in the same invocation, every invocation that
\* aborted the operation or whose push failed returns False, and the
\* orchestrator's success count is the number of PRs whose driver returned
\* True.
C22_SuccessMeansPushed == [](C22_TrueOnlyWithPush) /\ [][C22_CountStep]_vars

\* two PRs handled: one driver returned True after its push, the other
\* aborted and returned False, and the count is 1
C22_Witness ==
  /\ variant \in {"stalled", "backport"}
  /\ handled = 2 /\ success_count = 1
  /\ h.ret = "fail" /\ h.aborted /\ ~h.pushed

\* C23: every return of handle_stalled_pr made after its working branch
\* local_stalled_<n> was created leaves the target branch checked out and
\* that working branch deleted.
C23_WorkingBranchRemoved ==
  (variant = "stalled" /\ Returned /\ h.branched) =>
    (curBranch = "target" /\ ~localBranch)

====
